---- MODULE Spec2Model ----
(***************************************************************************)
(* A model of diff_match_patch/patch_applier.py: the parser of the         *)
(* V4A-Compatible patch format (PatchApplier.parse_patch, _parse_block,    *)
(* _parse_hunk) and the applier (apply_patch, _apply_update,               *)
(* _apply_hunk_to_lines, _find_hunk_location, _apply_add, _apply_delete).  *)
(*                                                                         *)
(* A string is a sequence of characters.  An ordinary character is a       *)
(* one-character TLA+ string; each marker literal of the format            *)
(* ("*** Begin Patch", "*** Update File:", ...) is one symbol of the       *)
(* alphabet, so that strip(), startswith() and slicing act on it as they   *)
(* act on the literal.  Indices are the 0-based indices of the Python      *)
(* code; lines[i] of the code is lines[i + 1] here.                        *)
(***************************************************************************)
EXTENDS Integers, Sequences, FiniteSets, TLC

VARIABLES
    \* ---- parser (parse_patch) ----
    src,          \* the patch as its author wrote it: a sequence of segments
    patch_text,   \* parse_patch's argument, a string
    lines,        \* patch_text.split('\n')
    i,            \* parse_patch's scan index
    block_i,      \* _parse_block's scan index (its local i)
    cur,          \* the block _parse_block is building
    blocks,       \* parse_patch's list of blocks
    ppc,          \* where parse_patch is
    \* ---- hunk application (_apply_hunk_to_lines) ----
    h_lines,      \* its argument lines
    h_hunk,       \* its argument hunk
    h_out,        \* its result
    hpc,          \* "call" before it ran, "returned" after
    \* ---- applier (apply_patch) ----
    fs0,          \* the filesystem under base_dir before apply_patch
    fs,           \* the filesystem under base_dir
    a_blocks,     \* the parsed blocks apply_patch loops over
    bk,           \* the index of the block the loop is at
    results,      \* apply_patch's list of (file_path, success, message)
    nwrites,      \* how many times a file was opened for writing
    apc           \* where apply_patch is

parse_vars == <<src, patch_text, lines, i, block_i, cur, blocks, ppc>>
hunk_vars == <<h_lines, h_hunk, h_out, hpc>>
apply_vars == <<fs0, fs, a_blocks, bk, results, nwrites, apc>>
vars == <<parse_vars, hunk_vars, apply_vars>>

(***************************************************************************)
(* Strings                                                                 *)
(***************************************************************************)
NL == "\n"
SP == " "

BeginPatch == "*** Begin Patch"
EndPatch == "*** End Patch"
UpdateFile == "*** Update File:"
AddFile == "*** Add File:"
DeleteFile == "*** Delete File:"
InvalidFile == "*** Invalid File:"

\* str.strip() with whitespace on the left removed
RECURSIVE LStrip(_)
LStrip(s) ==
    IF s = <<>> THEN s
    ELSE IF s[1] = SP \/ s[1] = NL THEN LStrip(Tail(s)) ELSE s

\* str.strip() with whitespace on the right removed
RECURSIVE RStrip(_)
RStrip(s) ==
    IF s = <<>> THEN s
    ELSE IF s[Len(s)] = SP \/ s[Len(s)] = NL
         THEN RStrip(SubSeq(s, 1, Len(s) - 1)) ELSE s

\* str.strip()
Strip(s) == RStrip(LStrip(s))

\* s.startswith(c) for a single symbol c
StartsWith(s, c) == Len(s) >= 1 /\ s[1] = c

\* s.startswith('@@')
StartsWithAtAt(s) == Len(s) >= 2 /\ s[1] = "@" /\ s[2] = "@"

\* s[n:]
Drop(s, n) == SubSeq(s, n + 1, Len(s))

\* text.split('\n'): one more piece than there are newlines
RECURSIVE SplitFrom(_, _, _)
SplitFrom(s, piece, acc) ==
    IF s = <<>> THEN Append(acc, piece)
    ELSE IF s[1] = NL THEN SplitFrom(Tail(s), <<>>, Append(acc, piece))
         ELSE SplitFrom(Tail(s), Append(piece, s[1]), acc)

Split(s) == SplitFrom(s, <<>>, <<>>)

\* '\n'.join(ls)
RECURSIVE Join(_)
Join(ls) ==
    IF ls = <<>> THEN <<>>
    ELSE IF Len(ls) = 1 THEN ls[1]
         ELSE ls[1] \o <<NL>> \o Join(Tail(ls))

(***************************************************************************)
(* The parser                                                              *)
(***************************************************************************)
\* The hunks one block can hold before the list no longer fits in memory.
MaxHunks == 3

NoBlock == [action |-> "", file_path |-> <<>>, hunks |-> <<>>, content |-> <<>>]

\* The loop of _parse_hunk from index k with the lines gathered so far; the
\* value of its i and of hunk_lines when the loop is left.
RECURSIVE ParseHunkLoop(_, _, _)
ParseHunkLoop(ls, k, hunk_lines) ==
    IF k >= Len(ls) THEN [i |-> k, hunk_lines |-> hunk_lines]
    ELSE LET line == ls[k + 1] IN
         IF Strip(line) = <<EndPatch>> THEN [i |-> k, hunk_lines |-> hunk_lines]
         ELSE IF StartsWithAtAt(line) THEN [i |-> k - 1, hunk_lines |-> hunk_lines]
         ELSE IF StartsWith(line, SP) \/ StartsWith(line, "-") \/ StartsWith(line, "+")
              THEN ParseHunkLoop(ls, k + 1, Append(hunk_lines, <<line[1], Drop(line, 1)>>))
              ELSE [i |-> k, hunk_lines |-> hunk_lines]

\* _parse_hunk(lines, start_idx), called on a line that starts with '@@'
ParseHunk(ls, start_idx) ==
    LET r == ParseHunkLoop(ls, start_idx + 1, <<>>) IN
    [header |-> Strip(Drop(ls[start_idx + 1], 2)),
     lines |-> r.hunk_lines,
     end_index |-> r.i - 1]

\* if not patch_text.strip(): return [];  lines = patch_text.split('\n')
ParseStart ==
    /\ ppc = "start"
    /\ IF Strip(patch_text) = <<>>
       THEN /\ ppc' = "done"
            /\ UNCHANGED lines
       ELSE /\ lines' = Split(patch_text)
            /\ ppc' = "scan"
    /\ UNCHANGED <<src, patch_text, i, block_i, cur, blocks, hunk_vars, apply_vars>>

\* a line that opens with one of the three action headers
IsActionHeader(line) ==
    StartsWith(line, UpdateFile) \/ StartsWith(line, AddFile) \/ StartsWith(line, DeleteFile)

\* the scan loop of parse_patch taking an action header outside any Begin
\* Patch line for the start of a block as well
ScanStep_HeaderStartsBlock ==
    /\ ppc = "scan"
    /\ IF i >= Len(lines)
       THEN /\ ppc' = "done"
            /\ UNCHANGED <<i, block_i>>
       ELSE IF Strip(lines[i + 1]) = <<BeginPatch>>
            THEN /\ i' = i + 1
                 /\ block_i' = i + 1
                 /\ ppc' = "find_action"
            ELSE IF IsActionHeader(Strip(lines[i + 1]))
            THEN /\ i' = i + 1
                 /\ block_i' = i
                 /\ ppc' = "find_action"
            ELSE /\ i' = i + 1
                 /\ UNCHANGED <<block_i, ppc>>
    /\ UNCHANGED <<src, patch_text, lines, cur, blocks, hunk_vars, apply_vars>>

\* one iteration of the while loop of parse_patch, up to the call of
\* _parse_block; the loop's exit returns blocks
ScanStep ==
    /\ ppc = "scan"
    /\ IF i >= Len(lines)
       THEN /\ ppc' = "done"
            /\ UNCHANGED <<i, block_i>>
       ELSE IF Strip(lines[i + 1]) = <<BeginPatch>>
            THEN /\ i' = i + 1
                 /\ block_i' = i + 1
                 /\ ppc' = "find_action"
            ELSE /\ i' = i + 1
                 /\ UNCHANGED <<block_i, ppc>>
    /\ UNCHANGED <<src, patch_text, lines, cur, blocks, hunk_vars, apply_vars>>

\* one iteration of the first loop of _parse_block; a None result makes
\* parse_patch step over one line
FindActionStep ==
    /\ ppc = "find_action"
    /\ IF block_i >= Len(lines)
       THEN /\ i' = i + 1
            /\ ppc' = "scan"
            /\ UNCHANGED <<block_i, cur>>
       ELSE LET line == Strip(lines[block_i + 1]) IN
            IF StartsWith(line, UpdateFile)
            THEN /\ cur' = [NoBlock EXCEPT !.action = "Update",
                                           !.file_path = Strip(Drop(line, 1))]
                 /\ block_i' = block_i + 1
                 /\ ppc' = "update_body"
                 /\ UNCHANGED i
            ELSE IF StartsWith(line, AddFile)
            THEN /\ cur' = [NoBlock EXCEPT !.action = "Add",
                                           !.file_path = Strip(Drop(line, 1))]
                 /\ block_i' = block_i + 1
                 /\ ppc' = "add_body"
                 /\ UNCHANGED i
            ELSE IF StartsWith(line, DeleteFile)
            THEN /\ cur' = [NoBlock EXCEPT !.action = "Delete",
                                           !.file_path = Strip(Drop(line, 1))]
                 /\ block_i' = block_i + 1
                 /\ ppc' = "delete_body"
                 /\ UNCHANGED i
            ELSE IF line = <<EndPatch>>
            THEN /\ i' = i + 1
                 /\ ppc' = "scan"
                 /\ UNCHANGED <<block_i, cur>>
            ELSE /\ block_i' = block_i + 1
                 /\ UNCHANGED <<i, cur, ppc>>
    /\ UNCHANGED <<src, patch_text, lines, blocks, hunk_vars, apply_vars>>

\* _parse_block returns the block with end_index = its i; parse_patch appends
\* it and goes on at end_index + 1
ReturnBlock ==
    /\ blocks' = Append(blocks, [action |-> cur.action, file_path |-> cur.file_path,
                                 hunks |-> cur.hunks, content |-> cur.content,
                                 end_index |-> block_i])
    /\ i' = block_i + 1
    /\ ppc' = "scan"
    /\ UNCHANGED <<block_i, cur>>

\* one iteration of the Delete loop of _parse_block, or its return
DeleteBodyStep ==
    /\ ppc = "delete_body"
    /\ IF block_i < Len(lines) /\ Strip(lines[block_i + 1]) # <<EndPatch>>
       THEN /\ block_i' = block_i + 1
            /\ UNCHANGED <<i, cur, blocks, ppc>>
       ELSE ReturnBlock
    /\ UNCHANGED <<src, patch_text, lines, hunk_vars, apply_vars>>

\* one iteration of the Add loop of _parse_block, or its return
AddBodyStep ==
    /\ ppc = "add_body"
    /\ IF block_i < Len(lines) /\ Strip(lines[block_i + 1]) # <<EndPatch>>
       THEN /\ cur' = IF StartsWith(lines[block_i + 1], "+")
                      THEN [cur EXCEPT !.content = Append(@, Drop(lines[block_i + 1], 1))]
                      ELSE cur
            /\ block_i' = block_i + 1
            /\ UNCHANGED <<i, blocks, ppc>>
       ELSE ReturnBlock
    /\ UNCHANGED <<src, patch_text, lines, hunk_vars, apply_vars>>

\* one iteration of the Update loop of _parse_block, or its return.  A hunk
\* is a non-empty dict, so `if hunk` always takes the first branch.  The list
\* of hunks holds MaxHunks hunks; an append past that finds no memory and
\* parse_patch returns nothing.
UpdateBodyStep ==
    /\ ppc = "update_body"
    /\ IF block_i < Len(lines) /\ Strip(lines[block_i + 1]) # <<EndPatch>>
       THEN IF StartsWithAtAt(lines[block_i + 1])
            THEN LET hunk == ParseHunk(lines, block_i) IN
                 IF Len(cur.hunks) >= MaxHunks
                 THEN /\ ppc' = "exhausted"
                      /\ UNCHANGED <<i, block_i, cur, blocks>>
                 ELSE /\ cur' = [cur EXCEPT !.hunks = Append(@, hunk)]
                      /\ block_i' = hunk.end_index + 1
                      /\ UNCHANGED <<i, blocks, ppc>>
            ELSE /\ block_i' = block_i + 1
                 /\ UNCHANGED <<i, cur, blocks, ppc>>
       ELSE ReturnBlock
    /\ UNCHANGED <<src, patch_text, lines, hunk_vars, apply_vars>>

(***************************************************************************)
(* Patch texts the parser is run on: a text is the segments of src, each   *)
(* rendered to its lines, joined by newlines.                              *)
(***************************************************************************)
MaxSegments == 2

Ch(c) == <<c>>
PathF == <<"f">>
PathG == <<"g">>

Seg(kind, path, body) == [kind |-> kind, path |-> path, body |-> body]

AddBodies ==
    { <<>>,
      << <<"+", SP, "a">> >>,
      << <<"+", "a">>, <<"+", SP, "b">> >> }

UpdateBodies ==
    { <<>>,
      << <<"@", "@", SP, "a">> >>,
      << <<"@", "@", SP, "a">>, <<SP, "a">>, <<"-", "x">>, <<"+", SP, "b">> >>,
      << <<"@", "@", SP, "a">>, <<SP, "a">>, <<"+", "b">>,
         <<"@", "@", "x">>, <<"-", "x">> >>,
      << <<"@", "@", SP, "a">>, <<"@", "@", SP, "x">>, <<"-", "x">> >>,
      << <<"@", "@", "a">>, <<SP, "a">>, <<"-", "x">>, <<"q">>, <<"-", "a">>,
         <<"@", "@", "x">>, <<"-", "x">>, <<>>, <<SP, "a">> >> }

SegmentSet ==
    { Seg("Delete", p, <<>>) : p \in {PathF, PathG} }
    \cup { Seg("Add", PathF, b) : b \in AddBodies }
    \cup { Seg("Update", PathF, b) : b \in UpdateBodies }
    \cup { Seg("Invalid", PathF, <<>>), Seg("Empty", <<>>, <<>>), Seg("Blank", <<>>, <<>>) }
    \cup { Seg("Delete", <<>>, <<>>) }
    \cup { Seg("BareDelete", PathF, <<>>),
           Seg("BareUpdate", PathF,
               << <<"@", "@", SP, "a">>, <<SP, "a">>, <<"-", "x">>, <<"+", SP, "b">> >>) }

ActionLiteral(kind) ==
    CASE kind \in {"Update", "BareUpdate"} -> UpdateFile
      [] kind = "Add" -> AddFile
      [] kind \in {"Delete", "BareDelete"} -> DeleteFile
      [] OTHER -> InvalidFile

\* the lines of one segment; a Bare segment lacks the Begin Patch line
RenderSegment(seg) ==
    CASE seg.kind = "Blank" -> << <<>> >>
      [] seg.kind = "Empty" -> << <<BeginPatch>>, <<EndPatch>> >>
      [] seg.kind \in {"BareUpdate", "BareDelete"} ->
             << <<ActionLiteral(seg.kind), SP>> \o seg.path >>
             \o seg.body \o << <<EndPatch>> >>
      [] OTHER -> << <<BeginPatch>>, <<ActionLiteral(seg.kind), SP>> \o seg.path >>
                  \o seg.body \o << <<EndPatch>> >>

RECURSIVE RenderLines(_)
RenderLines(segs) ==
    IF segs = <<>> THEN <<>> ELSE RenderSegment(segs[1]) \o RenderLines(Tail(segs))

Render(segs) == Join(RenderLines(segs))

SeqsUpTo(S, n) == UNION { [1..k -> S] : k \in 0..n }

InitParse ==
    /\ src \in SeqsUpTo(SegmentSet, MaxSegments)
    /\ patch_text = Render(src)
    /\ lines = <<>>
    /\ i = 0
    /\ block_i = 0
    /\ cur = NoBlock
    /\ blocks = <<>>
    /\ ppc = "start"

(***************************************************************************)
(* Hunk application                                                        *)
(***************************************************************************)
Max(a, b) == IF a >= b THEN a ELSE b
Min(a, b) == IF a <= b THEN a ELSE b

\* s[a:b] for 0 <= a, with Python's clamping to the length of s
Slice(s, a, b) == SubSeq(s, a + 1, Min(b, Len(s)))

\* s[a:]
SliceFrom(s, a) == SubSeq(s, a + 1, Len(s))

\* The index of the first line from k on that equals header after trimming,
\* or -1: the loop at the top of _apply_hunk_to_lines.
RECURSIVE HeaderMatch(_, _, _)
HeaderMatch(ls, header, k) ==
    IF k >= Len(ls) THEN -1
    ELSE IF Strip(ls[k + 1]) = Strip(header) THEN k
         ELSE HeaderMatch(ls, header, k + 1)

\* context_lines of _find_hunk_location: the leading run of ' ' and '-' lines
RECURSIVE ContextLines(_)
ContextLines(hunk_lines) ==
    IF hunk_lines = <<>> THEN <<>>
    ELSE IF hunk_lines[1][1] = SP \/ hunk_lines[1][1] = "-"
         THEN <<hunk_lines[1][2]>> \o ContextLines(Tail(hunk_lines))
         ELSE <<>>

\* whether context_lines match the file's lines from index k, trimmed
MatchesAt(ls, context_lines, k) ==
    \A j \in 0..(Len(context_lines) - 1) :
        Strip(ls[k + j + 1]) = Strip(context_lines[j + 1])

\* the for loop of _find_hunk_location from index k
RECURSIVE FindFrom(_, _, _)
FindFrom(ls, context_lines, k) ==
    IF k >= Len(ls) - Len(context_lines) + 1 THEN -1
    ELSE IF MatchesAt(ls, context_lines, k) THEN k
         ELSE FindFrom(ls, context_lines, k + 1)

\* _find_hunk_location(lines, hunk_lines)
FindHunkLocation(ls, hunk_lines) ==
    LET context_lines == ContextLines(hunk_lines) IN
    IF context_lines = <<>> THEN -1 ELSE FindFrom(ls, context_lines, 0)

\* The partition loop of _apply_hunk_to_lines over the hunk's lines from the
\* k-th on; acc holds the four lists and in_changes.
RECURSIVE PartitionFrom(_, _, _)
PartitionFrom(hunk_lines, k, acc) ==
    IF k > Len(hunk_lines) THEN acc
    ELSE LET prefix == hunk_lines[k][1]
             line == hunk_lines[k][2]
         IN  PartitionFrom(hunk_lines, k + 1,
                 IF prefix = SP
                 THEN IF acc.in_changes
                      THEN [acc EXCEPT !.context_after = Append(@, line)]
                      ELSE [acc EXCEPT !.context_before = Append(@, line)]
                 ELSE IF prefix = "-"
                 THEN [acc EXCEPT !.in_changes = TRUE, !.removals = Append(@, line)]
                 ELSE IF prefix = "+"
                 THEN [acc EXCEPT !.in_changes = TRUE, !.additions = Append(@, line)]
                 ELSE acc)

Partition(hunk_lines) ==
    PartitionFrom(hunk_lines, 1,
        [context_before |-> <<>>, context_after |-> <<>>, removals |-> <<>>,
         additions |-> <<>>, in_changes |-> FALSE])

\* match_idx with the context search consulted first and the header only
\* when the context is found nowhere
MatchIdx_ContextFirst(ls, hunk) ==
    LET m == FindHunkLocation(ls, hunk.lines) IN
    IF m = -1 THEN HeaderMatch(ls, hunk.header, 0) ELSE m

\* match_idx of _apply_hunk_to_lines: the header's line, else the context's
MatchIdx(ls, hunk) ==
    LET m == HeaderMatch(ls, hunk.header, 0) IN
    IF m = -1 THEN FindHunkLocation(ls, hunk.lines) ELSE m

\* start_idx of _apply_hunk_to_lines
StartIdx(match_idx, context_before) ==
    Max(match_idx - Len(context_before) + 1, 0)

\* _apply_hunk_to_lines(lines, hunk); ok is FALSE where the code returns None
ApplyHunkToLines(ls, hunk) ==
    LET match_idx == MatchIdx(ls, hunk) IN
    IF match_idx = -1 THEN [ok |-> FALSE, lines |-> <<>>]
    ELSE LET p == Partition(hunk.lines)
             start_idx == StartIdx(match_idx, p.context_before)
         IN  [ok |-> TRUE,
              lines |-> Slice(ls, 0, start_idx)
                        \o p.context_before \o p.additions \o p.context_after
                        \o SliceFrom(ls, start_idx + Len(p.context_before)
                                         + Len(p.removals) + Len(p.context_after))]

\* the call and return of _apply_hunk_to_lines
ApplyHunk ==
    /\ hpc = "call"
    /\ h_out' = ApplyHunkToLines(h_lines, h_hunk)
    /\ hpc' = "returned"
    /\ UNCHANGED <<h_lines, h_hunk, parse_vars, apply_vars>>

(***************************************************************************)
(* Files and hunks _apply_hunk_to_lines is run on                          *)
(***************************************************************************)
MaxFileLen == 3
MaxHunkLen == 3

FileLineSet == { <<"a">>, <<"x">>, <<SP, "a">> }
HunkTextSet == { <<"a">>, <<"x">> }
TaggedSet == { <<t, x>> : t \in {SP, "-", "+"}, x \in HunkTextSet }
HeaderSet == { <<"a">>, <<"x">>, <<"z">> }

InitHunk ==
    /\ h_lines \in SeqsUpTo(FileLineSet, MaxFileLen) \ {<<>>}
    /\ h_hunk \in [header : HeaderSet, lines : SeqsUpTo(TaggedSet, MaxHunkLen)]
    /\ h_out = [ok |-> FALSE, lines |-> <<>>]
    /\ hpc = "call"

IdleParse ==
    /\ src = <<>>
    /\ patch_text = <<>>
    /\ lines = <<>>
    /\ i = 0
    /\ block_i = 0
    /\ cur = NoBlock
    /\ blocks = <<>>
    /\ ppc = "idle"

(***************************************************************************)
(* The filesystem under base_dir.  A path is the string the patch gives,   *)
(* relative to base_dir; base_dir itself is an existing directory.         *)
(***************************************************************************)
PathD == <<"d">>
PathDF == <<"d", "/", "f">>
AllPaths == { PathF, PathD, PathDF }

NoEntry == [kind |-> "none", data |-> <<>>]
DirEntry == [kind |-> "dir", data |-> <<>>]
FileEntry(data) == [kind |-> "file", data |-> data]

\* os.path.exists
Exists(fsys, path) == fsys[path].kind # "none"

\* os.path.dirname of a path under base_dir; <<>> stands for base_dir
RECURSIVE Dirname(_)
Dirname(path) ==
    IF path = <<>> THEN <<>>
    ELSE IF path[Len(path)] = "/" THEN SubSeq(path, 1, Len(path) - 1)
         ELSE Dirname(SubSeq(path, 1, Len(path) - 1))

IsDir(fsys, path) == path = <<>> \/ fsys[path].kind = "dir"

\* whether open(path, 'w') succeeds: the parent is a directory and the path
\* itself is not one
CanOpenForWrite(fsys, path) ==
    IsDir(fsys, Dirname(path)) /\ fsys[path].kind # "dir"

Outcome(success, fsys, writes) == [success |-> success, fs |-> fsys, writes |-> writes]

\* The loop `for hunk in reversed(hunks)` of _apply_update with k hunks left
\* to apply, hunks[k] the next.
RECURSIVE ApplyHunksReversed(_, _, _)
ApplyHunksReversed(ls, hunks, k) ==
    IF k = 0 THEN [ok |-> TRUE, lines |-> ls]
    ELSE LET r == ApplyHunkToLines(ls, hunks[k]) IN
         IF ~r.ok THEN r ELSE ApplyHunksReversed(r.lines, hunks, k - 1)

\* The loop of _apply_update as it would be if the file were written after
\* every hunk: n counts the writes, lines is what the file holds at the end.
RECURSIVE FoldWritingEach(_, _, _, _)
FoldWritingEach(ls, hunks, k, n) ==
    IF k = 0 THEN [ok |-> TRUE, lines |-> ls, writes |-> n]
    ELSE LET r == ApplyHunkToLines(ls, hunks[k]) IN
         IF ~r.ok THEN [ok |-> FALSE, lines |-> ls, writes |-> n]
         ELSE FoldWritingEach(r.lines, hunks, k - 1, n + 1)

\* _apply_update with the write moved into the loop
ApplyUpdate_WritesEachHunk(fsys, file_path, hunks) ==
    IF ~Exists(fsys, file_path) \/ fsys[file_path].kind = "dir"
    THEN Outcome(FALSE, fsys, 0)
    ELSE LET r == FoldWritingEach(Split(fsys[file_path].data), hunks, Len(hunks), 0) IN
         Outcome(r.ok, [fsys EXCEPT ![file_path] = FileEntry(Join(r.lines))], r.writes)

\* _apply_update(file_path, hunks).  Opening a directory for reading raises,
\* which the except clause turns into False.
ApplyUpdate(fsys, file_path, hunks) ==
    IF ~Exists(fsys, file_path) THEN Outcome(FALSE, fsys, 0)
    ELSE IF fsys[file_path].kind = "dir" THEN Outcome(FALSE, fsys, 0)
    ELSE LET content == fsys[file_path].data
             r == ApplyHunksReversed(Split(content), hunks, Len(hunks))
         IN  IF ~r.ok THEN Outcome(FALSE, fsys, 0)
             ELSE Outcome(TRUE, [fsys EXCEPT ![file_path] = FileEntry(Join(r.lines))], 1)

\* _apply_add writing a newline after the last line
ApplyAdd_TrailingNewline(fsys, file_path, content) ==
    LET dir_path == Dirname(file_path)
        made == IF dir_path # <<>> /\ ~Exists(fsys, dir_path)
                THEN [fsys EXCEPT ![dir_path] = DirEntry]
                ELSE fsys
    IN  IF CanOpenForWrite(made, file_path)
        THEN Outcome(TRUE, [made EXCEPT ![file_path] =
                                FileEntry(Join(content) \o <<NL>>)], 1)
        ELSE Outcome(FALSE, made, 0)

\* _apply_add(file_path, content).  os.makedirs runs when the parent
\* directory is missing; open raises when the parent is a regular file or the
\* path is a directory, which the except clause turns into False.
ApplyAdd(fsys, file_path, content) ==
    LET dir_path == Dirname(file_path)
        made == IF dir_path # <<>> /\ ~Exists(fsys, dir_path)
                THEN [fsys EXCEPT ![dir_path] = DirEntry]
                ELSE fsys
    IN  IF CanOpenForWrite(made, file_path)
        THEN Outcome(TRUE, [made EXCEPT ![file_path] = FileEntry(Join(content))], 1)
        ELSE Outcome(FALSE, made, 0)

\* _apply_delete without the os.path.exists test
ApplyDelete_NoExistsTest(fsys, file_path) ==
    IF fsys[file_path].kind = "dir" THEN Outcome(FALSE, fsys, 0)
    ELSE Outcome(TRUE, [fsys EXCEPT ![file_path] = NoEntry], 0)

\* _apply_delete(file_path).  os.remove raises on a directory, which the
\* except clause turns into False.
ApplyDelete(fsys, file_path) ==
    IF Exists(fsys, file_path)
    THEN IF fsys[file_path].kind = "file"
         THEN Outcome(TRUE, [fsys EXCEPT ![file_path] = NoEntry], 0)
         ELSE Outcome(FALSE, fsys, 0)
    ELSE Outcome(FALSE, fsys, 0)

(***************************************************************************)
(* apply_patch: the loop over the parsed blocks.  The blocks are those     *)
(* parse_patch returns, so every action is Update, Add or Delete, and the  *)
(* _apply_* functions catch every exception themselves.                    *)
(***************************************************************************)
Record(block, r, yes, no) ==
    /\ fs' = r.fs
    /\ nwrites' = nwrites + r.writes
    /\ results' = Append(results, <<block.file_path, r.success,
                                    IF r.success THEN yes ELSE no>>)
    /\ bk' = bk + 1
    /\ UNCHANGED <<fs0, a_blocks, apc, parse_vars, hunk_vars>>

ApplyUpdateBlock ==
    /\ apc = "loop"
    /\ bk < Len(a_blocks)
    /\ a_blocks[bk + 1].action = "Update"
    /\ LET block == a_blocks[bk + 1] IN
       Record(block, ApplyUpdate(fs, block.file_path, block.hunks),
              "Updated successfully", "Failed to apply update")

ApplyAddBlock ==
    /\ apc = "loop"
    /\ bk < Len(a_blocks)
    /\ a_blocks[bk + 1].action = "Add"
    /\ LET block == a_blocks[bk + 1] IN
       Record(block, ApplyAdd(fs, block.file_path, block.content),
              "Added successfully", "Failed to add file")

ApplyDeleteBlock ==
    /\ apc = "loop"
    /\ bk < Len(a_blocks)
    /\ a_blocks[bk + 1].action = "Delete"
    /\ LET block == a_blocks[bk + 1] IN
       Record(block, ApplyDelete(fs, block.file_path),
              "Deleted successfully", "Failed to delete file")

\* blocks = self.parse_patch(patch_text); results = []
ApplyPatchStart ==
    /\ apc = "parse"
    /\ ppc = "done"
    /\ a_blocks' = blocks
    /\ results' = <<>>
    /\ apc' = "loop"
    /\ UNCHANGED <<fs0, fs, bk, nwrites, parse_vars, hunk_vars>>

\* apply_patch returning as soon as a block has failed
ApplyReturn_AfterFailure ==
    /\ apc = "loop"
    /\ bk >= Len(a_blocks) \/ (bk > 0 /\ ~results[bk][2])
    /\ apc' = "done"
    /\ UNCHANGED <<fs0, fs, a_blocks, bk, results, nwrites, parse_vars, hunk_vars>>

\* return results
ApplyReturn ==
    /\ apc = "loop"
    /\ bk >= Len(a_blocks)
    /\ apc' = "done"
    /\ UNCHANGED <<fs0, fs, a_blocks, bk, results, nwrites, parse_vars, hunk_vars>>

(***************************************************************************)
(* Filesystems and blocks apply_patch is run on                            *)
(***************************************************************************)
MaxBlocks == 2
MaxContext == 2

MkFs(f, d, df) == [p \in AllPaths |-> IF p = PathF THEN f ELSE IF p = PathD THEN d ELSE df]

CtxLines(ls) == [k \in 1..Len(ls) |-> <<SP, ls[k]>>]
RemLines(ls) == [k \in 1..Len(ls) |-> <<"-", ls[k]>>]
AddLines(ls) == [k \in 1..Len(ls) |-> <<"+", ls[k]>>]

Hunk(header, hunk_lines) == [header |-> header, lines |-> hunk_lines]
UpdateBlock(path, hunks) ==
    [action |-> "Update", file_path |-> path, hunks |-> hunks, content |-> <<>>]
AddBlock(path, content) ==
    [action |-> "Add", file_path |-> path, hunks |-> <<>>, content |-> content]
DeleteBlock(path) ==
    [action |-> "Delete", file_path |-> path, hunks |-> <<>>, content |-> <<>>]

\* a hunk no line of any file here anchors
Unanchored == Hunk(Ch("z"), RemLines(<<Ch("z")>>))

\* Sequences of blocks over a small set, on small filesystems.
FsSet ==
    { fsys \in { MkFs(f, d, df) :
                   f \in {NoEntry, FileEntry(Join(<<Ch("a"), Ch("x")>>))},
                   d \in {NoEntry, DirEntry, FileEntry(Ch("a"))},
                   df \in {NoEntry, FileEntry(Ch("a"))} } :
        fsys[PathDF].kind # "none" => fsys[PathD].kind = "dir" }

BlockSet ==
    { DeleteBlock(p) : p \in AllPaths }
    \cup { AddBlock(PathF, c) : c \in { <<>>, <<Ch("a")>>, <<Ch("x"), <<>> >> } }
    \cup { AddBlock(PathDF, <<Ch("a"), Ch("x")>>), AddBlock(PathD, <<Ch("x")>>) }
    \cup { UpdateBlock(PathF, hs) :
             hs \in { <<Hunk(Ch("a"), CtxLines(<<Ch("a")>>) \o RemLines(<<Ch("x")>>) \o AddLines(<<Ch("b")>>))>>,
                      <<Unanchored, Hunk(Ch("a"), CtxLines(<<Ch("a")>>) \o AddLines(<<Ch("b")>>))>> } }
    \cup { UpdateBlock(PathD, <<>>) }

SequenceScenarios ==
    { [fs |-> fsys, blocks |-> bs] :
        fsys \in FsSet, bs \in SeqsUpTo(BlockSet, MaxBlocks) }

\* One Update block of two hunks on a file with two edit regions:
\* P ++ C1 ++ R1 ++ E1 ++ M ++ C2 ++ R2 ++ S, the hunks listed top to bottom,
\* each with its header on the first line of its context-before; bad names
\* the hunk (if any) replaced by one that anchors nowhere.
Letters1 == <<Ch("a"), Ch("b"), Ch("g")>>
Letters2 == <<Ch("c"), Ch("e"), Ch("h")>>

TwoHunkScenario(P, k1, E1, M, k2, S, bad) ==
    LET C1 == SubSeq(Letters1, 1, k1)
        C2 == SubSeq(Letters2, 1, k2)
        R1 == <<Ch("o")>>
        R2 == <<Ch("q")>>
        h1 == IF bad = 1 THEN Unanchored
              ELSE Hunk(C1[1], CtxLines(C1) \o RemLines(R1) \o AddLines(<<Ch("n")>>) \o CtxLines(E1))
        h2 == IF bad = 2 THEN Unanchored
              ELSE Hunk(C2[1], CtxLines(C2) \o RemLines(R2) \o AddLines(<<Ch("r"), Ch("t")>>))
    IN  [fs |-> MkFs(FileEntry(Join(P \o C1 \o R1 \o E1 \o M \o C2 \o R2 \o S)),
                     NoEntry, NoEntry),
         blocks |-> <<UpdateBlock(PathF, <<h1, h2>>)>>]

TwoHunkScenarios ==
    { TwoHunkScenario(P, k1, E1, M, k2, S, bad) :
        P \in {<<>>, <<Ch("p")>>}, k1 \in 1..MaxContext, E1 \in {<<>>, <<Ch("u")>>},
        M \in {<<>>, <<Ch("m")>>}, k2 \in 1..MaxContext, S \in {<<>>, <<Ch("s")>>},
        bad \in 0..2 }

InitApply ==
    /\ \E sc \in SequenceScenarios \cup TwoHunkScenarios :
          /\ fs0 = sc.fs
          /\ a_blocks = sc.blocks
    /\ fs = fs0
    /\ bk = 0
    /\ results = <<>>
    /\ nwrites = 0
    /\ apc = "loop"

NextApply ==
    \/ ApplyUpdateBlock
    \/ ApplyAddBlock
    \/ ApplyDeleteBlock
    \/ ApplyReturn

IdleHunk ==
    /\ h_lines = <<>>
    /\ h_hunk = [header |-> <<>>, lines |-> <<>>]
    /\ h_out = [ok |-> FALSE, lines |-> <<>>]
    /\ hpc = "idle"

IdleApply ==
    /\ fs0 = <<>>
    /\ fs = <<>>
    /\ a_blocks = <<>>
    /\ bk = 0
    /\ results = <<>>
    /\ nwrites = 0
    /\ apc = "idle"

NextParse ==
    \/ ParseStart
    \/ ScanStep
    \/ FindActionStep
    \/ DeleteBodyStep
    \/ AddBodyStep
    \/ UpdateBodyStep

ParseInit == InitParse /\ IdleHunk /\ IdleApply

SpecParse == ParseInit /\ [][NextParse]_vars

NextHunk == ApplyHunk

HunkInit == InitHunk /\ IdleParse /\ IdleApply

SpecHunk == HunkInit /\ [][NextHunk]_vars

ApplyInit == InitApply /\ IdleParse /\ IdleHunk

SpecApply == ApplyInit /\ [][NextApply]_vars

(***************************************************************************)
(* apply_patch from its argument on: the text is parsed, then the blocks   *)
(* are applied to the filesystem.  The texts are those whose blocks name   *)
(* paths of the filesystem.                                                *)
(***************************************************************************)
PatchSegments ==
    { seg \in SegmentSet : seg.kind \in {"Update", "Add", "Delete"} => seg.path \in AllPaths }

\* the blocks of these texts name f alone: the filesystems hold f or not
PatchFsSet == { fsys \in FsSet : fsys[PathD].kind = "none" }

InitPatch ==
    /\ src \in SeqsUpTo(PatchSegments, MaxSegments)
    /\ patch_text = Render(src)
    /\ lines = <<>>
    /\ i = 0
    /\ block_i = 0
    /\ cur = NoBlock
    /\ blocks = <<>>
    /\ ppc = "start"
    /\ fs0 \in PatchFsSet
    /\ fs = fs0
    /\ a_blocks = <<>>
    /\ bk = 0
    /\ results = <<>>
    /\ nwrites = 0
    /\ apc = "parse"

NextPatch ==
    \/ ParseStart
    \/ ScanStep
    \/ FindActionStep
    \/ DeleteBodyStep
    \/ AddBodyStep
    \/ UpdateBodyStep
    \/ ApplyPatchStart
    \/ ApplyUpdateBlock
    \/ ApplyAddBlock
    \/ ApplyDeleteBlock
    \/ ApplyReturn

PatchInit == InitPatch /\ IdleHunk

SpecPatch == PatchInit /\ [][NextPatch]_vars


(***************************************************************************)
(* Claims about _apply_hunk_to_lines, under SpecHunk                       *)
(***************************************************************************)
\* the indices (0-based) of the lines of ls that equal x after trimming
Occurrences(ls, x) == { k \in 0..(Len(ls) - 1) : Strip(ls[k + 1]) = Strip(x) }

\* whether the hunk is context-before, removals, additions, context-after, in
\* that order
Canonical(hunk_lines) ==
    LET p == Partition(hunk_lines) IN
    hunk_lines = CtxLines(p.context_before) \o RemLines(p.removals)
                 \o AddLines(p.additions) \o CtxLines(p.context_after)

\* ls with the region of the hunk at index p replaced
Replaced(ls, p, hunk_lines) ==
    LET q == Partition(hunk_lines) IN
    SubSeq(ls, 1, p) \o q.context_before \o q.additions \o q.context_after
    \o SubSeq(ls, p + Len(q.context_before) + Len(q.removals) + Len(q.context_after) + 1,
              Len(ls))

\* the region context_before ++ removed ++ context_after of the hunk lies at
\* index p of ls, line for line
RegionAt(ls, p, hunk_lines) ==
    LET q == Partition(hunk_lines)
        region == q.context_before \o q.removals \o q.context_after
    IN  /\ p + Len(region) <= Len(ls)
        /\ SubSeq(ls, p + 1, p + Len(region)) = region

\* C1: a file P ++ C1 ++ R ++ C2 ++ S and a hunk with non-empty context-before
\* C1, removed R, added A, context-after C2, whose header is the first line of
\* C1 and is no other line of the file (not even after trimming): the hunk is
\* applied and the result is P ++ C1 ++ A ++ C2 ++ S, whatever P and S are.
C1_ExactHeaderEditsOnlyRegion ==
    hpc = "returned" =>
        \A p \in 0..Len(h_lines) :
            LET q == Partition(h_hunk.lines) IN
            ( /\ Canonical(h_hunk.lines)
              /\ q.context_before # <<>>
              /\ h_hunk.header = q.context_before[1]
              /\ RegionAt(h_lines, p, h_hunk.lines)
              /\ Occurrences(h_lines, h_hunk.header) = {p} )
            => /\ h_out.ok
               /\ h_out.lines = Replaced(h_lines, p, h_hunk.lines)

\* the indices (0-based) at which the list xs matches ls line by line, trimmed
SequenceOccurrences(ls, xs) ==
    { k \in 0..(Len(ls) - Len(xs)) :
        \A j \in 1..Len(xs) : Strip(ls[k + j]) = Strip(xs[j]) }

\* C3: no line of the file equals the header after trimming, and
\* context_before ++ removed occurs in the file at exactly one index p: the
\* hunk is applied at p, for every p and every length of context_before.
C3_FallbackAppliesAtMatch ==
    hpc = "returned" =>
        \A p \in 0..Len(h_lines) :
            LET q == Partition(h_hunk.lines) IN
            ( /\ Occurrences(h_lines, h_hunk.header) = {}
              /\ SequenceOccurrences(h_lines, q.context_before \o q.removals) = {p} )
            => /\ h_out.ok
               /\ h_out.lines = Replaced(h_lines, p, h_hunk.lines)

\* the texts of the lines of a hunk that carry the tag, in order
RECURSIVE TextsOf(_, _)
TextsOf(hunk_lines, tag) ==
    IF hunk_lines = <<>> THEN <<>>
    ELSE (IF hunk_lines[1][1] = tag THEN <<hunk_lines[1][2]>> ELSE <<>>)
         \o TextsOf(Tail(hunk_lines), tag)

\* how many lines the hunk opens with that are context lines
RECURSIVE LeadingContextLen(_)
LeadingContextLen(hunk_lines) ==
    IF hunk_lines = <<>> \/ hunk_lines[1][1] # SP THEN 0
    ELSE 1 + LeadingContextLen(Tail(hunk_lines))

\* the four lists of a hunk as the format defines them: the context lines
\* before the first change, all removed lines, all added lines, the context
\* lines after the first change
ContextBefore(hunk_lines) ==
    TextsOf(SubSeq(hunk_lines, 1, LeadingContextLen(hunk_lines)), SP)
ContextAfter(hunk_lines) ==
    TextsOf(SubSeq(hunk_lines, LeadingContextLen(hunk_lines) + 1, Len(hunk_lines)), SP)
Removed(hunk_lines) == TextsOf(hunk_lines, "-")
Added(hunk_lines) == TextsOf(hunk_lines, "+")

\* the lowest element of a non-empty set of indices
Lowest(S) == CHOOSE k \in S : \A j \in S : k <= j

\* the lines the stated formula gives for a hunk anchored by match index m
Spliced(ls, m, hunk_lines) ==
    LET cb == ContextBefore(hunk_lines)
        s == IF m - Len(cb) + 1 < 0 THEN 0 ELSE m - Len(cb) + 1
        n == Len(cb) + Len(Removed(hunk_lines)) + Len(ContextAfter(hunk_lines))
    IN  SubSeq(ls, 1, s) \o cb \o Added(hunk_lines) \o ContextAfter(hunk_lines)
        \o SubSeq(ls, s + n + 1, Len(ls))

C14_FallbackMatchesPreimage ==
    LET xs == ContextBefore(h_hunk.lines) \o Removed(h_hunk.lines)
        found == SequenceOccurrences(h_lines, xs)
    IN  ( /\ hpc = "returned"
          /\ Occurrences(h_lines, h_hunk.header) = {}
          /\ xs # <<>> )
        => /\ FindHunkLocation(h_lines, h_hunk.lines)
                = IF found = {} THEN -1 ELSE Lowest(found)
           /\ h_out.ok <=> found # {}


(***************************************************************************)
(* Claims about apply_patch, under SpecApply                               *)
(***************************************************************************)
\* the step of apply_patch's loop that processes a block of the action
BlockStep(action) ==
    /\ apc = "loop"
    /\ bk < Len(a_blocks)
    /\ a_blocks[bk + 1].action = action
    /\ bk' = bk + 1

\* a hunk as C1 and C2 describe it, lying at index p of ls, its header there
\* and nowhere else
HeaderedAt(ls, p, hunk) ==
    LET q == Partition(hunk.lines) IN
    /\ Canonical(hunk.lines)
    /\ q.context_before # <<>>
    /\ hunk.header = q.context_before[1]
    /\ RegionAt(ls, p, hunk.lines)
    /\ Occurrences(ls, hunk.header) = {p}

RegionLen(hunk) ==
    LET q == Partition(hunk.lines) IN
    Len(q.context_before) + Len(q.removals) + Len(q.context_after)

\* C2: one Update block of two hunks, listed top to bottom, on two disjoint
\* regions of the file, each header the first line of its context-before and
\* unique in the file: the update succeeds and the file is the original with
\* each region's removed lines replaced by the added ones, all else as it was.
C2_TwoHunksBothLand ==
    ( /\ apc = "done"
      /\ Len(a_blocks) = 1
      /\ a_blocks[1].action = "Update"
      /\ Len(a_blocks[1].hunks) = 2
      /\ fs0[a_blocks[1].file_path].kind = "file" )
    => LET path == a_blocks[1].file_path
           ls == Split(fs0[path].data)
           h1 == a_blocks[1].hunks[1]
           h2 == a_blocks[1].hunks[2]
       IN  \A p1, p2 \in 0..Len(ls) :
               ( /\ HeaderedAt(ls, p1, h1)
                 /\ HeaderedAt(ls, p2, h2)
                 /\ p1 + RegionLen(h1) <= p2 )
               => /\ results[1][2]
                  /\ fs[path] = FileEntry(Join(
                         Replaced(Replaced(ls, p2, h2.lines), p1, h1.lines)))

\* C4: an Update block either finds an anchor for every hunk, and then writes
\* the file once, with all hunks folded in, or fails and leaves the
\* filesystem as it was, with nothing written.
C4_UpdateAtomic ==
    [][ BlockStep("Update") =>
          LET block == a_blocks[bk + 1]
              path == block.file_path
              success == results'[bk + 1][2]
              fold == ApplyHunksReversed(Split(fs[path].data), block.hunks,
                                         Len(block.hunks))
          IN  /\ success <=> (fs[path].kind = "file" /\ fold.ok)
              /\ success => /\ nwrites' = nwrites + 1
                            /\ fs' = [fs EXCEPT ![path] = FileEntry(Join(fold.lines))]
              /\ ~success => /\ nwrites' = nwrites
                             /\ fs' = fs ]_vars

\* C4's case: the second hunk, applied first, is folded in memory and changes
\* the lines, the first hunk finds no anchor, and the file is as it was.
C4_Witness ==
    /\ apc = "done"
    /\ Len(a_blocks) = 1
    /\ a_blocks[1].action = "Update"
    /\ Len(a_blocks[1].hunks) = 2
    /\ fs0[a_blocks[1].file_path].kind = "file"
    /\ LET ls == Split(fs0[a_blocks[1].file_path].data)
           r == ApplyHunkToLines(ls, a_blocks[1].hunks[2])
       IN  /\ r.ok
           /\ r.lines # ls
           /\ ~ApplyHunkToLines(r.lines, a_blocks[1].hunks[1]).ok
    /\ ~results[1][2]
    /\ fs = fs0
    /\ nwrites = 0

\* what one block does to a filesystem
BlockOutcome(fsys, block) ==
    CASE block.action = "Update" -> ApplyUpdate(fsys, block.file_path, block.hunks)
      [] block.action = "Add" -> ApplyAdd(fsys, block.file_path, block.content)
      [] block.action = "Delete" -> ApplyDelete(fsys, block.file_path)

\* the filesystem after the first k blocks of bs, each run on what the ones
\* before it left
RECURSIVE Replay(_, _, _)
Replay(fsys, bs, k) ==
    IF k = 0 THEN fsys ELSE BlockOutcome(Replay(fsys, bs, k - 1), bs[k]).fs

\* C5: one result per block, the k-th carrying the k-th block's path; a
\* failed block does not stop the loop: every block is run, on the filesystem
\* as the blocks before it left it, and apply_patch returns only after the
\* last one.
C5_OneResultPerBlock ==
    /\ Len(results) = bk
    /\ bk <= Len(a_blocks)
    /\ \A k \in 1..Len(results) :
          /\ results[k][1] = a_blocks[k].file_path
          /\ results[k][2] = BlockOutcome(Replay(fs0, a_blocks, k - 1), a_blocks[k]).success
    /\ fs = Replay(fs0, a_blocks, bk)
    /\ apc = "done" => Len(results) = Len(a_blocks)

\* C5's case: the first block failed, the second ran all the same, succeeded
\* and changed the filesystem.
C5_Witness ==
    /\ apc = "done"
    /\ Len(results) = 2
    /\ ~results[1][2]
    /\ results[2][2]
    /\ fs # fs0

\* C8: after a successful Add block with content lines L the target is a file
\* holding join(L, "\n") and nothing after it (read back and split, it gives
\* L again), its parent directory exists, and nothing else changed.
C8_AddRoundTrip ==
    [][ BlockStep("Add") =>
          LET block == a_blocks[bk + 1]
              path == block.file_path
              L == block.content
              success == results'[bk + 1][2]
          IN  success =>
                /\ fs'[path].kind = "file"
                /\ IF L = <<>> THEN fs'[path].data = <<>>
                   ELSE Split(fs'[path].data) = L
                /\ IsDir(fs', Dirname(path))
                /\ \A q \in AllPaths \ {path, Dirname(path)} : fs'[q] = fs[q] ]_vars

\* C8's case: an Add that had to create its parent directory, then an Add
\* over an existing file with other content, both successful.
C8_Witness ==
    /\ apc = "done"
    /\ Len(a_blocks) = 2
    /\ a_blocks[1].action = "Add" /\ a_blocks[2].action = "Add"
    /\ a_blocks[1].file_path = PathDF /\ fs0[PathD].kind = "none"
    /\ a_blocks[2].file_path = PathF /\ fs0[PathF].kind = "file"
    /\ results[1][2] /\ results[2][2]
    /\ fs[PathD].kind = "dir"
    /\ fs[PathDF] = FileEntry(Join(a_blocks[1].content))
    /\ fs[PathF] = FileEntry(Join(a_blocks[2].content))
    /\ fs[PathF] # fs0[PathF]

\* an earlier Delete block of the same path succeeded and no Add block of the
\* path came after it
DeletedBefore(path) ==
    \E k \in 1..bk :
        /\ a_blocks[k].action = "Delete"
        /\ a_blocks[k].file_path = path
        /\ results[k][2]
        /\ \A m \in (k + 1)..bk :
              ~(a_blocks[m].action = "Add" /\ a_blocks[m].file_path = path)

\* C9 as stated: a Delete block succeeds if and only if its target path
\* exists when the block is processed; after a success the path is gone; a
\* second Delete of the path with no Add of it in between fails and changes
\* nothing.
C9_DeleteIffExists ==
    [][ BlockStep("Delete") =>
          LET path == a_blocks[bk + 1].file_path
              success == results'[bk + 1][2]
          IN  /\ success <=> Exists(fs, path)
              /\ success => ~Exists(fs', path)
              /\ DeletedBefore(path) => (~success /\ fs' = fs) ]_vars

\* C9 amended: a Delete block succeeds if and only if its target path is a
\* regular file when the block is processed (an existing directory makes
\* os.remove raise: failure, nothing changed); after a success the path is
\* gone; a second Delete of the path with no Add of it in between fails and
\* changes nothing.
C9_DeleteIffRegularFile ==
    [][ BlockStep("Delete") =>
          LET path == a_blocks[bk + 1].file_path
              success == results'[bk + 1][2]
          IN  /\ success <=> fs[path].kind = "file"
              /\ success => (~Exists(fs', path)
                             /\ \A q \in AllPaths \ {path} : fs'[q] = fs[q])
              /\ ~success => fs' = fs
              /\ DeletedBefore(path) => (~success /\ fs' = fs) ]_vars

\* C9's case: the same Delete block twice; the first succeeds, the second
\* fails and leaves the filesystem alone.
C9_Witness ==
    /\ apc = "done"
    /\ Len(a_blocks) = 2
    /\ a_blocks[1].action = "Delete" /\ a_blocks[2] = a_blocks[1]
    /\ fs0[a_blocks[1].file_path].kind = "file"
    /\ results[1][2]
    /\ ~results[2][2]
    /\ ~Exists(fs, a_blocks[1].file_path)


(***************************************************************************)
(* Claims about parse_patch, under SpecParse                               *)
(***************************************************************************)
Recognized == {"Update", "Add", "Delete"}
Discarded == {"Invalid", "Empty"}

IsRecognized(seg) == seg.kind \in Recognized

\* the action and path of each parsed block
Headers(bs) == [k \in 1..Len(bs) |-> <<bs[k].action, bs[k].file_path>>]

\* the action and path of each segment
Authored(segs) == [k \in 1..Len(segs) |-> <<segs[k].kind, segs[k].path>>]

\* C6: a text of N well-formed segments (Begin Patch, a recognized action
\* header, the body, End Patch; an Update body any number of hunks, each an
\* @@ line and zero or more tagged lines): parse_patch returns N blocks, the
\* k-th with the action and path of the k-th segment.
C6_WellFormedTextYieldsItsBlocks ==
    (\A k \in 1..Len(src) : IsRecognized(src[k]))
    => /\ ppc # "exhausted"
       /\ ppc = "done" => Headers(blocks) = Authored(src)

\* a line written '+', one space, text
IsPlusSpace(line) == Len(line) >= 2 /\ line[1] = "+" /\ line[2] = SP
IsPlus(line) == StartsWith(line, "+")
IsAdded(tagged) == tagged[1] = "+"

\* the text of each line of body written '+', one space, text
Denoted(body) ==
    LET ps == SelectSeq(body, IsPlusSpace) IN [k \in 1..Len(ps) |-> Drop(ps[k], 2)]

\* the added lines of the hunks, in order
RECURSIVE AddedTexts(_)
AddedTexts(hunks) ==
    IF hunks = <<>> THEN <<>>
    ELSE LET a == SelectSeq(hunks[1].lines, IsAdded) IN
         [k \in 1..Len(a) |-> a[k][2]] \o AddedTexts(Tail(hunks))

\* C7: a line '+', one space, T denotes the line T.  A text of one Add block
\* whose '+' lines are all written so parses to the content [T1, ..., Tn];
\* a text of one Update block whose '+' lines are all written so parses to
\* hunks whose added lines are the Ts.
C7_PlusSpaceDenotesText ==
    ( /\ ppc = "done"
      /\ Len(src) = 1
      /\ IsRecognized(src[1])
      /\ \A k \in 1..Len(src[1].body) :
            IsPlus(src[1].body[k]) => IsPlusSpace(src[1].body[k]) )
    => /\ Len(blocks) = 1
       /\ src[1].kind = "Add" => blocks[1].content = Denoted(src[1].body)
       /\ src[1].kind = "Update" => AddedTexts(blocks[1].hunks) = Denoted(src[1].body)

\* C10: a text in which some segments have End Patch before any recognized
\* action header (none, or only an unrecognized one) and all others are well
\* formed: the former yield no block and every one of the latter yields its
\* block.
C10_DiscardedSegmentThenTheRest ==
    ( /\ \E k \in 1..Len(src) : src[k].kind \in Discarded
      /\ \A k \in 1..Len(src) : src[k].kind \in Discarded \cup Recognized )
    => /\ ppc # "exhausted"
       /\ ppc = "done" => Headers(blocks) = Authored(SelectSeq(src, IsRecognized))

\* a line that begins with space, '-' or '+'
IsTagged(line) == Len(line) >= 1 /\ line[1] \in {SP, "-", "+"}

\* how many lines of body from the k-th on begin with space, '-' or '+',
\* counted up to the first that does not
RECURSIVE RunLen(_, _)
RunLen(body, k) ==
    IF k > Len(body) \/ ~IsTagged(body[k]) THEN 0 ELSE 1 + RunLen(body, k + 1)

\* the lines of the hunks an Update body denotes: one hunk for each line of
\* the body from the k-th on that begins with @@, in order, its lines the
\* run directly after it, each as (first character, rest)
RECURSIVE DenotedHunkLines(_, _)
DenotedHunkLines(body, k) ==
    IF k > Len(body) THEN <<>>
    ELSE IF StartsWithAtAt(body[k])
         THEN << [j \in 1..RunLen(body, k + 1) |->
                    <<body[k + j][1], SubSeq(body[k + j], 2, Len(body[k + j]))>>] >>
              \o DenotedHunkLines(body, k + 1)
         ELSE DenotedHunkLines(body, k + 1)

\* the lines of each parsed hunk
HunkLines(hunks) == [k \in 1..Len(hunks) |-> hunks[k].lines]

\* C15: in a text of well-formed segments, each line of an Update body that
\* begins with @@ starts exactly one hunk, the hunks are in document order,
\* and a hunk's lines are the maximal run of lines after its header that
\* begin with space, '-' or '+', each as (first character, rest): the run
\* stops at a line with another first character, at an empty line, at the
\* next @@ line and at End Patch.
C15_UpdateBodyHunks ==
    (\A k \in 1..Len(src) : IsRecognized(src[k]))
    => /\ ppc # "exhausted"
       /\ ppc = "done" =>
             /\ Len(blocks) = Len(src)
             /\ \A k \in 1..Len(src) :
                   src[k].kind = "Update" =>
                       HunkLines(blocks[k].hunks) = DenotedHunkLines(src[k].body, 1)

\* how many lines begin with @@
AtAtCount(ls) == Cardinality({ k \in 1..Len(ls) : StartsWithAtAt(ls[k]) })

\* C16: parse_patch terminates on every text: every iteration of the block
\* loop of parse_patch moves its index forward, every iteration of the hunk
\* loop of _parse_block moves its index forward (after a _parse_hunk call it
\* is past the @@ line just parsed), a block never holds more hunks than the
\* text has @@ lines, and the list of hunks never outgrows memory.
C16_ParseTerminates ==
    [][ /\ (ppc = "scan" /\ ppc' # "done") => i' > i
        /\ i' >= i
        /\ (ppc = "update_body" /\ ppc' = "update_body") => block_i' > block_i
        /\ Len(cur'.hunks) <= AtAtCount(lines')
        /\ ppc' # "exhausted" ]_vars

\* C12: every block parse_patch holds or returns, for any text, has a
\* non-empty file_path.
C12_FilePathNeverEmpty ==
    \A k \in 1..Len(blocks) : blocks[k].file_path # <<>>

(***************************************************************************)
(* Claims about apply_patch from the text on, under SpecPatch              *)
(***************************************************************************)
\* no line of the text is, after trimming, the Begin Patch line
NoBeginLine(text) ==
    \A k \in 1..Len(Split(text)) : Strip(Split(text)[k]) # <<BeginPatch>>

\* C11: a text with no Begin Patch line yields no block, whatever headers,
\* hunks and End Patch lines it holds: _parse_block is never entered,
\* parse_patch returns the empty list, and apply_patch returns an empty list
\* of results with nothing on disk changed or written.
C11_NoBeginPatchNoBlocks ==
    NoBeginLine(patch_text) =>
        /\ ppc \in {"start", "scan", "done"}
        /\ blocks = <<>>
        /\ a_blocks = <<>>
        /\ results = <<>>
        /\ fs = fs0
        /\ nwrites = 0

\* C11's case: apply_patch has returned on a text that holds an Update
\* header, a hunk that fits the file f, and End Patch, but no Begin Patch.
C11_Witness ==
    /\ apc = "done"
    /\ NoBeginLine(patch_text)
    /\ \E k \in 1..Len(src) :
          /\ src[k].kind = "BareUpdate"
          /\ fs0[src[k].path].kind = "file"
          /\ LET hunk == ParseHunk(src[k].body, 0) IN
             /\ ApplyHunkToLines(Split(fs0[src[k].path].data), hunk).ok
             /\ ApplyHunkToLines(Split(fs0[src[k].path].data), hunk).lines
                   # Split(fs0[src[k].path].data)
    /\ \E k \in 1..Len(Split(patch_text)) : Strip(Split(patch_text)[k]) = <<EndPatch>>
    /\ results = <<>>
    /\ fs = fs0

====
